---------------------------- MODULE Spec2Model ----------------------------
(***************************************************************************)
(* Model of the AssetMonitor prediction service (src/app.py).              *)
(*                                                                         *)
(* Numbers are exact fixed-point integers: one unit is 1/Unit, so that the *)
(* thresholds 1.8, 2.8, 4.5, 7.1, the value 79.999 and the divisions by 2  *)
(* and 3 of analyze_health on inputs given in thousandths are all exact.   *)
(* Floating-point rounding is outside the model.                           *)
(* Python dicts are functions with a string domain; str(e) messages are    *)
(* tuples of strings.                                                      *)
(***************************************************************************)
EXTENDS Integers, Sequences, FiniteSets, TLC

VARIABLES
    models,          \* the model table loaded at start-up (app.py:27)
    input,           \* request.get_json(): the body of the request being served
    pc,              \* position of the request thread
    idx,             \* index (1-based) of the reading of the for loop at line 122
    futures,         \* the futures of the current reading, by model name
    collected,       \* model names whose future as_completed has yielded
    predictions,     \* the dict `predictions` of the current reading
    all_predictions, \* the list `all_predictions`
    outcome,         \* what predict_from_models is leaving the with-block with
    resp,            \* the HTTP response: status and JSON body
    invoked,         \* history: <<reading index, model name>> ever submitted
    failures,        \* history: <<reading index, model name>> that ran and failed
    now,             \* datetime.now(), also the number of the request
    prev,            \* the response to the previous request
    arg,             \* argument of a function applied on its own
    ret              \* its result

vars == <<models, input, pc, idx, futures, collected, predictions,
          all_predictions, outcome, resp, invoked, failures, now, prev, arg, ret>>

(***************************************************************************)
(* Bounds of the model.                                                    *)
(***************************************************************************)
MaxLen == 2          \* longest batch whose readings are enumerated
MaxRequests == 2     \* requests served one after the other
MaxValues == 4       \* longest list of values given to the mode extractor
MaxPreds == 3        \* longest predictions_list given to the aggregator

(***************************************************************************)
(* Program constants.                                                      *)
(***************************************************************************)
MaxBatch == 1800
Unit == 6 * 1000     \* units per 1.0

model_names == <<"temperature_model", "vibration_model", "magnetic_flux_model",
                 "audible_sound_model", "ultra_sound_model">>

ModelNames == {model_names[i] : i \in 1..Len(model_names)}

feature_sets ==
    [temperature_model   |-> <<"temperature_one", "temperature_two">>,
     vibration_model     |-> <<"vibration_x", "vibration_y", "vibration_z">>,
     magnetic_flux_model |-> <<"magnetic_flux_x", "magnetic_flux_y", "magnetic_flux_z">>,
     audible_sound_model |-> <<"vibration_x", "vibration_y", "vibration_z", "audible_sound">>,
     ultra_sound_model   |-> <<"vibration_x", "vibration_y", "vibration_z", "ultra_sound">>]

\* model_name.replace('_model', '')
KeyOf(model_name) ==
    CASE model_name = "temperature_model"   -> "temperature"
      [] model_name = "vibration_model"     -> "vibration"
      [] model_name = "magnetic_flux_model" -> "magnetic_flux"
      [] model_name = "audible_sound_model" -> "audible_sound"
      [] model_name = "ultra_sound_model"   -> "ultra_sound"

Range(s) == {s[i] : i \in 1..Len(s)}

EmptyDict == [k \in {} |-> 0]

(***************************************************************************)
(* Values.  A JSON value of a reading is a number, a string holding the    *)
(* text of a number, another string, or null.  A prediction is a float or  *)
(* a str; a float v/d is kept as an exact fraction, and the str "<float>"  *)
(* is the text str() gives the float v/d.                                  *)
(***************************************************************************)
JNum(n)    == [t |-> "number", v |-> n]
JNumStr(n) == [t |-> "numeric string", v |-> n]
JBadStr    == [t |-> "string", v |-> 0]
JNull      == [t |-> "null", v |-> 0]

PyFloat(v, d) == [k |-> "float", v |-> v, d |-> d, s |-> ""]
PyStr(s)      == [k |-> "str", v |-> 0, d |-> 1, s |-> s]

\* str(x) of a prediction
str(x) == IF x.k = "str" THEN x ELSE [k |-> "str", v |-> x.v, d |-> x.d, s |-> "<float>"]

NoExc == [exc |-> "none", msg |-> <<>>]
Raise(exc, msg) == [exc |-> exc, msg |-> msg]

\* float(x) of a JSON value
float(x) ==
    CASE x.t = "number"         -> [exc |-> "none", msg |-> <<>>, v |-> x.v]
      [] x.t = "numeric string" -> [exc |-> "none", msg |-> <<>>, v |-> x.v]
      [] x.t = "string"         -> [exc |-> "ValueError",
                                    msg |-> <<"could not convert string to float: ", "'abc'">>,
                                    v |-> 0]
      [] x.t = "null"           -> [exc |-> "TypeError",
                                    msg |-> <<"float() argument must be a string or a real number, not ",
                                              "'NoneType'">>,
                                    v |-> 0]

\* input_data[feature]: a reading is [isdict, items]
getitem(input_data, feature) ==
    IF ~input_data.isdict
    THEN [exc |-> "TypeError", msg |-> <<"'int' object is not subscriptable">>, x |-> JNull]
    ELSE IF feature \notin DOMAIN input_data.items
    THEN [exc |-> "KeyError", msg |-> <<"'", feature, "'">>, x |-> JNull]
    ELSE [exc |-> "none", msg |-> <<>>, x |-> input_data.items[feature]]

\* float(input_data[feature])
FloatOf(input_data, feature) ==
    LET g == getitem(input_data, feature) IN
    IF g.exc # "none" THEN [exc |-> g.exc, msg |-> g.msg, v |-> 0] ELSE float(g.x)

\* [float(input_data[feature]) for feature in features], from position i on
RECURSIVE Comprehension(_, _, _, _)
Comprehension(input_data, features, i, acc) ==
    IF i > Len(features)
    THEN [exc |-> "none", msg |-> <<>>, X |-> acc]
    ELSE LET f == FloatOf(input_data, features[i]) IN
         IF f.exc # "none"
         THEN [exc |-> f.exc, msg |-> f.msg, X |-> <<>>]
         ELSE Comprehension(input_data, features, i + 1, Append(acc, f.v))

(***************************************************************************)
(* The predictors are opaque objects loaded from disk: a predictor here is *)
(* a deterministic function of its input vector that may also raise.       *)
(* temperature_model is a regressor (np.floating output), magnetic_flux a  *)
(* classifier with integer labels (np.integer), the others classifiers     *)
(* with string labels.                                                     *)
(***************************************************************************)
ModelPredict(model, X) ==
    IF model.raises # "none"
    THEN [exc |-> model.raises, msg |-> <<"model failure">>, np |-> "", v |-> 0, s |-> ""]
    ELSE CASE model.name = "temperature_model" ->
                [exc |-> "none", msg |-> <<>>, np |-> "floating", v |-> (X[1] + X[2]) \div 2, s |-> ""]
           [] model.name = "magnetic_flux_model" ->
                [exc |-> "none", msg |-> <<>>, np |-> "integer",
                 v |-> IF X[1] >= Unit THEN Unit ELSE 0, s |-> ""]
           [] OTHER ->
                [exc |-> "none", msg |-> <<>>, np |-> "str_", v |-> 0,
                 s |-> IF X[1] >= Unit THEN "Faulty" ELSE "Normal"]

\* float(prediction) if isinstance(prediction, (np.integer, np.floating)) else str(prediction)
Coerce(p) == IF p.np \in {"integer", "floating"} THEN PyFloat(p.v, 1) ELSE PyStr(p.s)

\* what the except clause of predict_single_model catches
Caught == {"ValueError", "TypeError"}

\* predict_single_model: [exc, msg] of an exception that leaves it, or ret, the
\* dict it returns
predict_single_model(model_name, model, input_data) ==
    LET features == feature_sets[model_name]
        c == Comprehension(input_data, features, 1, <<>>)
        p == ModelPredict(model, c.X)
        e == IF c.exc # "none" THEN Raise(c.exc, c.msg)
             ELSE IF p.exc # "none" THEN Raise(p.exc, p.msg)
             ELSE NoExc
    IN  IF e.exc = "none"
        THEN [exc |-> "none", msg |-> <<>>, ret |-> (KeyOf(model_name) :> Coerce(p))]
        ELSE IF e.exc \in Caught
        THEN [exc |-> "none", msg |-> <<>>,
              ret |-> ("error" :> (<<"Invalid input for ", model_name, ": ">> \o e.msg))]
        ELSE [exc |-> e.exc, msg |-> e.msg, ret |-> EmptyDict]


(***************************************************************************)
(* Counter(values).most_common(1)[0][0]: the Counter keeps its keys in     *)
(* first-seen order and most_common(1) is max() over them by count, which  *)
(* keeps the first of several maximal keys.                                *)
(***************************************************************************)
Count(values, x) == Cardinality({i \in 1..Len(values) : values[i] = x})

\* the keys of Counter(values), in insertion order
RECURSIVE CounterKeys(_, _, _)
CounterKeys(values, i, acc) ==
    IF i > Len(values) THEN acc
    ELSE IF values[i] \in Range(acc)
    THEN CounterKeys(values, i + 1, acc)
    ELSE CounterKeys(values, i + 1, Append(acc, values[i]))

\* a faulty max(): a later key with an equal count replaces the candidate
Beats_OrTies(count, best) == count >= best

\* max() replaces its candidate only by a strictly larger count
Beats(count, best) == count > best

RECURSIVE MaxByCount(_, _, _, _)
MaxByCount(values, keys, i, best) ==
    IF i > Len(keys) THEN best
    ELSE IF Beats(Count(values, keys[i]), Count(values, best))
    THEN MaxByCount(values, keys, i + 1, keys[i])
    ELSE MaxByCount(values, keys, i + 1, best)

most_common(values) ==
    LET keys == CounterKeys(values, 1, <<>>) IN MaxByCount(values, keys, 2, keys[1])

(***************************************************************************)
(* calculate_modes                                                         *)
(***************************************************************************)
\* a faulty key list: a feature that no model requires among the keys
ModeKeys_Unrequired ==
    feature_sets["temperature_model"] \o feature_sets["vibration_model"]
    \o feature_sets["magnetic_flux_model"] \o <<"audible_sound", "humidity">>

\* the keys of all_values, in order
ModeKeys ==
    feature_sets["temperature_model"] \o feature_sets["vibration_model"]
    \o feature_sets["magnetic_flux_model"]
    \o SubSeq(feature_sets["audible_sound_model"], 4, Len(feature_sets["audible_sound_model"]))

calculate_modes(input_data_array) ==
    LET n == Len(input_data_array)
        bad == {p \in (1..n) \X (1..Len(ModeKeys)) :
                    FloatOf(input_data_array[p[1]], ModeKeys[p[2]]).exc # "none"}
        first == CHOOSE p \in bad : \A q \in bad :
                    p[1] < q[1] \/ (p[1] = q[1] /\ p[2] <= q[2])
        all_values == [j \in 1..Len(ModeKeys) |->
                          [i \in 1..n |-> FloatOf(input_data_array[i], ModeKeys[j]).v]]
    IN  IF bad # {}
        THEN LET f == FloatOf(input_data_array[first[1]], ModeKeys[first[2]])
             IN  [exc |-> f.exc, msg |-> f.msg, ret |-> EmptyDict]
        ELSE [exc |-> "none", msg |-> <<>>,
              ret |-> [key \in Range(ModeKeys) |->
                          LET j == CHOOSE j \in 1..Len(ModeKeys) : ModeKeys[j] = key
                          IN  most_common(all_values[j])]]

(***************************************************************************)
(* aggregate_predictions                                                   *)
(***************************************************************************)
RECURSIVE GCD(_, _)
GCD(a, b) == IF b = 0 THEN a ELSE GCD(b, a % b)

Abs(a) == IF a < 0 THEN -a ELSE a

RECURSIVE Sum(_, _)
Sum(values, i) == IF i > Len(values) THEN 0 ELSE values[i].v + Sum(values, i + 1)

\* float(np.mean(model_predictions)): the exact quotient sum / len, in lowest terms
mean(model_predictions) ==
    LET total == Sum(model_predictions, 1)
        n == Len(model_predictions)
        g == GCD(Abs(total), n)
    IN  PyFloat(total \div g, n \div g)

\* a faulty aggregate: the most frequent value whatever the kind
Aggregate_ByMode(model_predictions) == str(most_common(model_predictions))

\* the aggregate of one model's predictions
Aggregate(model_predictions) ==
    IF \A i \in 1..Len(model_predictions) : model_predictions[i].k = "float"
    THEN mean(model_predictions)
    ELSE str(most_common(model_predictions))

aggregate_predictions(predictions_list) ==
    LET Keys == {KeyOf(m) : m \in ModelNames}
        missing == {key \in Keys : \E i \in 1..Len(predictions_list) :
                        key \notin DOMAIN predictions_list[i]}
    IN  IF missing # {}
        THEN [exc |-> "KeyError", msg |-> <<"'", CHOOSE key \in missing : TRUE, "'">>,
              ret |-> EmptyDict]
        ELSE [exc |-> "none", msg |-> <<>>,
              ret |-> [key \in Keys |->
                          Aggregate([i \in 1..Len(predictions_list) |-> predictions_list[i][key]])]]

(***************************************************************************)
(* The health analysis                                                     *)
(***************************************************************************)
Tenths(n) == (n * Unit) \div 10

\* faulty thresholds: the bounds of each tier included in it
evaluate_machine_condition_Inclusive(temperature, vibration) ==
    IF temperature <= 80 * Unit /\ vibration <= Tenths(18)
    THEN "Safe Condition"
    ELSE IF temperature <= 100 * Unit /\ vibration <= Tenths(28)
    THEN "Maintain Condition"
    ELSE "Repair Condition"

evaluate_machine_condition(temperature, vibration) ==
    IF temperature < 80 * Unit /\ vibration < Tenths(18)
    THEN "Safe Condition"
    ELSE IF temperature < 100 * Unit /\ vibration < Tenths(28)
    THEN "Maintain Condition"
    ELSE "Repair Condition"

\* faulty tiers: 80 degrees still counted as no anomaly
detect_temperature_anomaly_Inclusive(temperature) ==
    IF temperature <= 80 * Unit
    THEN "No significant temperature anomaly detected"
    ELSE IF temperature < 100 * Unit
    THEN "Moderate Overheating - Check Lubrication"
    ELSE IF temperature < 120 * Unit
    THEN "Significant Overheating - Possible Misalignment or Bearing Wear"
    ELSE "Critical Overheating - Immediate Repair Needed"

detect_temperature_anomaly(temperature) ==
    IF temperature < 80 * Unit
    THEN "No significant temperature anomaly detected"
    ELSE IF 80 * Unit <= temperature /\ temperature < 100 * Unit
    THEN "Moderate Overheating - Check Lubrication"
    ELSE IF 100 * Unit <= temperature /\ temperature < 120 * Unit
    THEN "Significant Overheating - Possible Misalignment or Bearing Wear"
    ELSE "Critical Overheating - Immediate Repair Needed"

detect_vibration_anomaly(vibration) ==
    IF vibration < Tenths(18)
    THEN "No significant vibration anomaly detected"
    ELSE IF Tenths(18) <= vibration /\ vibration < Tenths(28)
    THEN "Unbalance Fault"
    ELSE IF Tenths(28) <= vibration /\ vibration < Tenths(45)
    THEN "Misalignment Fault"
    ELSE IF Tenths(45) <= vibration /\ vibration < Tenths(71)
    THEN "Looseness Fault"
    ELSE "Bearing Fault or Gear Mesh Fault"

avg_temp(input_data) ==
    (input_data["temperature_one"] + input_data["temperature_two"]) \div 2

avg_vibration(input_data) ==
    (input_data["vibration_x"] + input_data["vibration_y"] + input_data["vibration_z"]) \div 3

\* analyze_health, with datetime.now() given as timestamp
analyze_health(input_data, timestamp) ==
    LET condition == evaluate_machine_condition(avg_temp(input_data), avg_vibration(input_data))
    IN  [machine_condition    |-> condition,
         temperature_analysis |-> detect_temperature_anomaly(avg_temp(input_data)),
         vibration_analysis   |-> detect_vibration_anomaly(avg_vibration(input_data)),
         timestamp            |-> timestamp,
         overall_health       |-> IF condition = "Safe Condition" THEN "Healthy" ELSE "Unhealthy"]


(***************************************************************************)
(* The requests served: the model tables and the request bodies.           *)
(***************************************************************************)
Milli(k) == 6 * k    \* k thousandths, in units

Dict(items) == [isdict |-> TRUE, items |-> items]

Without(reading, feature) ==
    Dict([f \in DOMAIN reading.items \ {feature} |-> reading.items[f]])

With(reading, feature, x) ==
    Dict([f \in DOMAIN reading.items \cup {feature} |->
             IF f = feature THEN x ELSE reading.items[f]])

GoodA ==
    Dict([temperature_one |-> JNum(Milli(60000)), temperature_two |-> JNum(Milli(70000)),
          vibration_x |-> JNum(Milli(500)), vibration_y |-> JNum(Milli(500)),
          vibration_z |-> JNum(Milli(500)),
          magnetic_flux_x |-> JNum(Milli(200)), magnetic_flux_y |-> JNum(Milli(200)),
          magnetic_flux_z |-> JNum(Milli(200)),
          audible_sound |-> JNum(Milli(300)), ultra_sound |-> JNum(Milli(400))])

GoodB ==
    Dict([temperature_one |-> JNumStr(Milli(90000)), temperature_two |-> JNum(Milli(95000)),
          vibration_x |-> JNum(Milli(2000)), vibration_y |-> JNumStr(Milli(2000)),
          vibration_z |-> JNum(Milli(2000)),
          magnetic_flux_x |-> JNum(Milli(1500)), magnetic_flux_y |-> JNum(Milli(200)),
          magnetic_flux_z |-> JNum(Milli(200)),
          audible_sound |-> JNum(Milli(300)), ultra_sound |-> JNum(Milli(700))])

NoVibX    == Without(GoodA, "vibration_x")
BadTemp   == With(GoodA, "temperature_one", JBadStr)
BadVibX   == With(GoodB, "vibration_x", JBadStr)
NullFlux  == Without(With(GoodA, "magnetic_flux_z", JNull), "ultra_sound")
NotADict  == [isdict |-> FALSE, items |-> EmptyDict]

Readings == {GoodA, GoodB, NoVibX, BadTemp, BadVibX, NullFlux, NotADict}

RECURSIVE SeqsUpTo(_, _)
SeqsUpTo(S, n) ==
    IF n = 0 THEN {<<>>}
    ELSE LET shorter == SeqsUpTo(S, n - 1)
         IN  shorter \cup {Append(q, x) : q \in {r \in shorter : Len(r) = n - 1}, x \in S}

\* A request body: list says whether it is a JSON array, n is its length and
\* items its first readings; the readings after them, if any, are GoodA.
List(items) == [list |-> TRUE, n |-> Len(items), items |-> items]
Long(n, first) == [list |-> TRUE, n |-> n, items |-> <<first>>]
NotAList == [list |-> FALSE, n |-> 0, items |-> <<>>]

Inputs ==
    {List(q) : q \in SeqsUpTo(Readings, MaxLen)}
    \cup {NotAList, Long(MaxBatch, BadTemp), Long(MaxBatch + 1, BadTemp)}

ReadingAt(body, i) == IF i <= Len(body.items) THEN body.items[i] ELSE GoodA

len(body) == body.n

\* the table `models`: every predictor works, or magnetic_flux_model raises
Table(raises) ==
    [m \in ModelNames |->
        [name |-> m, raises |-> IF m = "magnetic_flux_model" THEN raises ELSE "none"]]

ModelTables == {Table("none"), Table("ValueError"), Table("RuntimeError")}

(***************************************************************************)
(* The request thread and the worker pool.                                 *)
(***************************************************************************)
NoResult  == [exc |-> "none", msg |-> <<>>, ret |-> EmptyDict]
NoFutures == [m \in ModelNames |-> [st |-> "new", res |-> NoResult]]
NoOutcome == [type |-> "none", exc |-> "none", msg |-> <<>>, value |-> EmptyDict]
NoResp    == [status |-> 0, body |-> EmptyDict]

Failed(res) == res.exc # "none" \/ "error" \in DOMAIN res.ret

\* a faulty length check: a batch of exactly 1800 readings rejected
TooLong_Inclusive(n) == n >= MaxBatch

\* len(input_data_array) > 1800
TooLong(n) == n > MaxBatch

\* a faulty error test: the error result of an invocation goes unnoticed
IsError_Never(result) == FALSE

\* "error" in result
IsError(result) == "error" \in DOMAIN result

\* a faulty early return: the error merged into the predictions collected so far
ErrorReturn_Merged(result, preds) == result @@ preds

\* return result (line 131)
ErrorReturn(result, preds) == result

\* a faulty fan-in: results paired with the model names in completion order
update_ByPosition(preds, result) ==
    preds @@ (KeyOf(model_names[Cardinality(DOMAIN preds) + 1])
                 :> result[CHOOSE k \in DOMAIN result : TRUE])

\* predictions.update(result)
update(preds, result) == result @@ preds

\* a faulty executor exit: the with-block left without waiting (shutdown(wait=False))
AllFinished_NoWait(fs) == TRUE

\* ThreadPoolExecutor.__exit__ is shutdown(wait=True): every worker is joined,
\* so every submitted future has run
AllFinished(fs) == \A m \in ModelNames : fs[m].st # "pending"

\* a faulty fan-in: the reading is taken as complete at its first result
AllCollected_Any(done) == done # {}

\* a faulty fan-in: the loop never sees its last future
AllCollected_Never(done) == FALSE

\* as_completed(futures) is exhausted once it has yielded every future
AllCollected(done) == done = ModelNames

\* a faulty collection: the newest reading put first
append_First(all_preds, preds) == <<preds>> \o all_preds

\* all_predictions.append(predictions)
append(all_preds, preds) == Append(all_preds, preds)

Init ==
    /\ models \in ModelTables
    /\ input \in Inputs
    /\ pc = "Validating"
    /\ idx = 0
    /\ futures = NoFutures
    /\ collected = {}
    /\ predictions = EmptyDict
    /\ all_predictions = <<>>
    /\ outcome = NoOutcome
    /\ resp = NoResp
    /\ invoked = {}
    /\ failures = {}
    /\ now = 1
    /\ prev = NoResp
    /\ arg = <<>>
    /\ ret = <<>>

\* predict, lines 155-166: the shape checks, then predict_from_models is entered
Validate ==
    /\ pc = "Validating"
    /\ IF ~input.list
       THEN /\ resp' = [status |-> 400, body |-> ("error" :> <<"Input must be an array">>)]
            /\ pc' = "Failed"
            /\ idx' = idx
       ELSE IF TooLong(len(input))
       THEN /\ resp' = [status |-> 400,
                        body |-> ("error" :> <<"Input array exceeds maximum length of 1800">>)]
            /\ pc' = "Failed"
            /\ idx' = idx
       ELSE IF len(input) = 0
       THEN /\ resp' = [status |-> 400, body |-> ("error" :> <<"Input array cannot be empty">>)]
            /\ pc' = "Failed"
            /\ idx' = idx
       ELSE /\ resp' = resp
            /\ pc' = "Submitting"
            /\ idx' = 1
    /\ UNCHANGED <<models, input, futures, collected, predictions, all_predictions,
                   outcome, invoked, failures, now, prev, arg, ret>>

\* executor.submit (line 125), for the next model of models.items()
Submit ==
    /\ pc = "Submitting"
    /\ LET k == Cardinality({m \in ModelNames : futures[m].st # "new"})
           m == model_names[k + 1]
       IN  /\ futures' = [futures EXCEPT ![m].st = "pending"]
           /\ invoked' = invoked \cup {<<idx, m>>}
           /\ pc' = IF k + 1 = Len(model_names) THEN "Collecting" ELSE "Submitting"
    /\ UNCHANGED <<models, input, idx, collected, predictions, all_predictions,
                   outcome, resp, failures, now, prev, arg, ret>>

\* a worker thread runs predict_single_model for a submitted future
Run(m) ==
    /\ futures[m].st = "pending"
    /\ LET res == predict_single_model(m, models[m], ReadingAt(input, idx))
       IN  /\ futures' = [futures EXCEPT ![m] = [st |-> "finished", res |-> res]]
           /\ failures' = IF Failed(res) THEN failures \cup {<<idx, m>>} ELSE failures
    /\ UNCHANGED <<models, input, pc, idx, collected, predictions, all_predictions,
                   outcome, resp, invoked, now, prev, arg, ret>>

\* one iteration of the as_completed loop (lines 128-132) on a finished future,
\* with lines 134 and 122 after the last one
Collect(m) ==
    /\ pc = "Collecting"
    /\ futures[m].st = "finished"
    /\ m \notin collected
    /\ LET res == futures[m].res
           preds == update(predictions, res.ret)
           last == AllCollected(collected \cup {m})
       IN  IF res.exc # "none"
           THEN /\ outcome' = [type |-> "raise", exc |-> res.exc, msg |-> res.msg,
                               value |-> EmptyDict]
                /\ pc' = "ShuttingDown"
                /\ UNCHANGED <<idx, futures, collected, predictions, all_predictions>>
           ELSE IF IsError(res.ret)
           THEN /\ outcome' = [type |-> "return", exc |-> "none", msg |-> <<>>,
                               value |-> ErrorReturn(res.ret, predictions)]
                /\ pc' = "ShuttingDown"
                /\ UNCHANGED <<idx, futures, collected, predictions, all_predictions>>
           ELSE IF ~last
           THEN /\ predictions' = preds
                /\ collected' = collected \cup {m}
                /\ UNCHANGED <<pc, idx, futures, all_predictions, outcome>>
           ELSE /\ all_predictions' = append(all_predictions, preds)
                /\ predictions' = EmptyDict
                /\ collected' = {}
                /\ futures' = NoFutures
                /\ idx' = IF idx < len(input) THEN idx + 1 ELSE idx
                /\ pc' = IF idx < len(input) THEN "Submitting" ELSE "Aggregating"
                /\ outcome' = outcome
    /\ UNCHANGED <<models, input, resp, invoked, failures, now, prev, arg, ret>>

\* the with-block is left by a return or an exception: ThreadPoolExecutor.__exit__
\* waits for every submitted future, then predict answers (lines 167-171)
Shutdown ==
    /\ pc = "ShuttingDown"
    /\ AllFinished(futures)
    /\ resp' = IF outcome.type = "raise"
               THEN [status |-> 500, body |-> ("error" :> outcome.msg)]
               ELSE [status |-> 200, body |-> outcome.value]
    /\ pc' = IF "error" \in DOMAIN resp'.body THEN "Failed" ELSE "Done"
    /\ UNCHANGED <<models, input, idx, futures, collected, predictions, all_predictions,
                   outcome, invoked, failures, now, prev, arg, ret>>

Batch(body) == [i \in 1..len(body) |-> ReadingAt(body, i)]

\* lines 137-152, and the answer of predict (lines 168-171)
Aggregating ==
    /\ pc = "Aggregating"
    /\ LET aggregated_predictions == aggregate_predictions(all_predictions)
           modes == calculate_modes(Batch(input))
       IN  IF aggregated_predictions.exc # "none"
           THEN /\ resp' = [status |-> 500, body |-> ("error" :> aggregated_predictions.msg)]
                /\ pc' = "Failed"
           ELSE IF modes.exc # "none"
           THEN /\ resp' = [status |-> 500, body |-> ("error" :> modes.msg)]
                /\ pc' = "Failed"
           ELSE /\ resp' = [status |-> 200,
                            body |-> [predictions |-> aggregated_predictions.ret,
                                      modes |-> modes.ret,
                                      Analysis_summary |-> analyze_health(modes.ret, now)]]
                /\ pc' = "Done"
    /\ UNCHANGED <<models, input, idx, futures, collected, predictions, all_predictions,
                   outcome, invoked, failures, now, prev, arg, ret>>

\* the client sends the same body again, later
NextRequest ==
    /\ pc \in {"Done", "Failed"}
    /\ now < MaxRequests
    /\ prev' = resp
    /\ now' = now + 1
    /\ pc' = "Validating"
    /\ idx' = 0
    /\ futures' = NoFutures
    /\ collected' = {}
    /\ predictions' = EmptyDict
    /\ all_predictions' = <<>>
    /\ outcome' = NoOutcome
    /\ resp' = NoResp
    /\ invoked' = {}
    /\ failures' = {}
    /\ UNCHANGED <<models, input, arg, ret>>

Next ==
    \/ Validate
    \/ Submit
    \/ \E m \in ModelNames : Run(m)
    \/ \E m \in ModelNames : Collect(m)
    \/ Shutdown
    \/ Aggregating
    \/ NextRequest

Spec == Init /\ [][Next]_vars

\* the steps of the thread serving the request
RequestThread ==
    \/ Validate
    \/ Submit
    \/ \E m \in ModelNames : Collect(m)
    \/ Shutdown
    \/ Aggregating

\* The threads keep running: while the request thread or a worker of the pool
\* (at least five workers, one per future of a reading) can take a step, one
\* of them does.  Only a request in Done or Failed enables NextRequest, so this
\* follows from each thread being scheduled fairly.
\* the requests whose termination is checked: a working reading, one on which
\* three invocations fail and one on which one returns an error and one raises
LiveInputs ==
    {List(q) : q \in SeqsUpTo({GoodA, BadVibX, NullFlux}, MaxLen)}
    \cup {NotAList, Long(MaxBatch, BadTemp), Long(MaxBatch + 1, BadTemp)}

InitLive == Init /\ input \in LiveInputs

FairSpec ==
    /\ InitLive
    /\ [][Next]_vars
    /\ WF_vars(RequestThread \/ \E m \in ModelNames : Run(m))


(***************************************************************************)
(* Claims about the request pipeline, checked under Spec.                  *)
(***************************************************************************)
Terminal == pc \in {"Done", "Failed"}

ResultKeys == {"predictions", "modes", "Analysis_summary"}

ShapeMessages == {<<"Input must be an array">>,
                  <<"Input array exceeds maximum length of 1800">>,
                  <<"Input array cannot be empty">>}

\* C1: a batch of two readings that both lack vibration_x ends with the
\* structured error 'Invalid input for vibration_model' of predict_single_model,
\* and the response carries no predictions, modes or analysis summary.
C1_MissingFeatureIsStructuredError ==
    (Terminal /\ models = Table("none") /\ input = List(<<NoVibX, NoVibX>>))
        => /\ "error" \in DOMAIN resp.body
           /\ DOMAIN resp.body \cap ResultKeys = {}
           /\ Len(resp.body["error"]) >= 2
           /\ SubSeq(resp.body["error"], 1, 2) = <<"Invalid input for ", "vibration_model">>

\* C2: a failed request is answered 400 for a shape violation and 500 for a
\* prediction-time failure (some model invocation failed); never with success.
C2_FailureStatus ==
    Terminal =>
        /\ (~input.list \/ len(input) = 0 \/ len(input) > 1800) => resp.status = 400
        /\ failures # {} => resp.status = 500

\* C3: a batch of length 0 or of length above 1800 ends in a shape error and no
\* model invocation is ever submitted for it; a batch of length 1 or 1800 is not
\* rejected for its shape.
C3_ShapeRejection ==
    /\ (input.list /\ (len(input) = 0 \/ len(input) > 1800)) =>
          /\ invoked = {}
          /\ pc \in {"Validating", "Failed"}
          /\ pc = "Failed" =>
                /\ resp.status = 400
                /\ DOMAIN resp.body = {"error"}
                /\ resp.body["error"] \in ShapeMessages
    /\ (input.list /\ len(input) \in {1, 1800} /\ pc # "Validating") =>
          /\ invoked # {} \/ pc = "Submitting"
          /\ "error" \in DOMAIN resp.body => resp.body["error"] \notin ShapeMessages

C3_Witness ==
    /\ pc = "Failed"
    /\ len(input) = 1801
    /\ resp.status = 400
    /\ invoked = {}

\* C4: in every terminal state the response is a full result (predictions,
\* modes and analysis summary, no error) or an error alone; never both.
C4_FullResultOrError ==
    Terminal => \/ DOMAIN resp.body = ResultKeys
                \/ DOMAIN resp.body = {"error"}

C4_Witness ==
    /\ pc = "Failed"
    /\ failures # {}
    /\ all_predictions # <<>>
    /\ DOMAIN resp.body = {"error"}

\* C5: if an invocation for reading i fails, no invocation is ever submitted for
\* a reading after i, and the request ends in Failed with the one error of a
\* failed invocation of reading i.
C5_FailureAbortsBatch ==
    /\ \A f \in failures : \A v \in invoked : v[1] <= f[1]
    /\ (failures # {} /\ Terminal) =>
          /\ pc = "Failed"
          /\ DOMAIN resp.body = {"error"}
          /\ \E m \in ModelNames :
                /\ <<idx, m>> \in failures
                /\ futures[m].st = "finished"
                /\ resp.body["error"] = IF futures[m].res.exc # "none"
                                        THEN futures[m].res.msg
                                        ELSE futures[m].res.ret["error"]

C5_Witness ==
    /\ pc = "Failed"
    /\ failures # {}
    /\ idx = 1
    /\ len(input) = 2
    /\ invoked = {1} \X ModelNames

\* C6: on a batch whose invocations all succeed, predictions and modes are the
\* same in every completion order and in every repetition of the request; only
\* the timestamp differs.
C6_Deterministic ==
    (pc = "Done" /\ now > 1) =>
        /\ DOMAIN prev.body = ResultKeys
        /\ resp.body["predictions"] = prev.body["predictions"]
        /\ resp.body["modes"] = prev.body["modes"]
        /\ [resp.body["Analysis_summary"] EXCEPT !["timestamp"] = 0]
               = [prev.body["Analysis_summary"] EXCEPT !["timestamp"] = 0]

C6_Witness ==
    /\ pc = "Done"
    /\ now = 2
    /\ input = List(<<GoodB, GoodA>>)
    /\ resp.body["predictions"] = prev.body["predictions"]
    /\ resp.body["Analysis_summary"]["timestamp"] # prev.body["Analysis_summary"]["timestamp"]

\* C7: the modes of a successful result have exactly the ten raw features as
\* keys, ultra_sound among them.
C7_TenModeKeys ==
    pc = "Done" =>
        DOMAIN resp.body["modes"] =
            {"temperature_one", "temperature_two", "vibration_x", "vibration_y",
             "vibration_z", "magnetic_flux_x", "magnetic_flux_y", "magnetic_flux_z",
             "audible_sound", "ultra_sound"}


(***************************************************************************)
(* calculate_modes applied on its own (SpecModes).                         *)
(***************************************************************************)
ModeValues == {JNum(Milli(1000)), JNum(Milli(2000)), JNumStr(Milli(1000)), JNum(Milli(3000))}

\* batches whose temperature_one runs through q and whose vibration_x runs
\* through q backwards
ModeBatches ==
    {[i \in 1..Len(q) |->
         With(With(GoodA, "temperature_one", q[i]), "vibration_x", q[Len(q) + 1 - i])] :
     q \in SeqsUpTo(ModeValues, MaxValues) \ {<<>>}}

Idle ==
    /\ models = Table("none")
    /\ input = NotAList
    /\ idx = 0
    /\ futures = NoFutures
    /\ collected = {}
    /\ predictions = EmptyDict
    /\ all_predictions = <<>>
    /\ outcome = NoOutcome
    /\ resp = NoResp
    /\ invoked = {}
    /\ failures = {}
    /\ now = 1
    /\ prev = NoResp
    /\ ret = <<>>

InitModes ==
    /\ Idle
    /\ pc = "calculate_modes"
    /\ arg \in ModeBatches

ApplyModes ==
    /\ pc = "calculate_modes"
    /\ ret' = calculate_modes(arg)
    /\ pc' = "returned"
    /\ UNCHANGED <<models, input, idx, futures, collected, predictions, all_predictions,
                   outcome, resp, invoked, failures, now, prev, arg>>

SpecModes == InitModes /\ [][ApplyModes]_vars

\* C8: the mode of every feature is a value with the maximal number of
\* occurrences in the batch and, among those, the one that occurs first;
\* the values 1.0, 2.0, 1.0, 2.0 give 1.0.
C8_ModeIsFirstMostFrequent ==
    pc = "returned" =>
        /\ ret.exc = "none"
        /\ \A key \in DOMAIN ret.ret :
              LET n == Len(arg)
                  value(i) == arg[i].items[key].v
                  Occ(x) == Cardinality({i \in 1..n : value(i) = x})
                  mode == ret.ret[key]
                  first == CHOOSE i \in 1..n : value(i) = mode /\ \A j \in 1..(i - 1) : value(j) # mode
              IN  /\ \E i \in 1..n : value(i) = mode
                  /\ \A i \in 1..n : Occ(value(i)) <= Occ(mode)
                  /\ \A i \in 1..n : Occ(value(i)) = Occ(mode) => first <= i
        /\ ([i \in 1..Len(arg) |-> arg[i].items["temperature_one"]]
                = <<JNum(Milli(1000)), JNum(Milli(2000)), JNum(Milli(1000)), JNum(Milli(2000))>>)
               => ret.ret["temperature_one"] = Milli(1000)

C8_Witness ==
    /\ pc = "returned"
    /\ [i \in 1..Len(arg) |-> arg[i].items["temperature_one"]]
           = <<JNum(Milli(1000)), JNum(Milli(2000)), JNum(Milli(1000)), JNum(Milli(2000))>>
    /\ ret.ret["temperature_one"] = Milli(1000)
    /\ ret.ret["vibration_x"] = Milli(2000)

(***************************************************************************)
(* analyze_health applied on its own (SpecHealth).                         *)
(***************************************************************************)
TemperatureValues == {Milli(60000), Milli(79999), Milli(80000), Milli(99999),
                      Milli(100000), Milli(120000)}

VibrationValues ==
    {Milli(500), Milli(1799), Milli(1800), Milli(2799), Milli(2800), Milli(4500), Milli(7100)}

HealthInputs ==
    {[temperature_one |-> t1, temperature_two |-> t2,
      vibration_x |-> x, vibration_y |-> y, vibration_z |-> y] :
     t1 \in TemperatureValues, t2 \in TemperatureValues,
     x \in VibrationValues, y \in VibrationValues}

InitHealth ==
    /\ Idle
    /\ pc = "analyze_health"
    /\ arg \in HealthInputs

ApplyHealth ==
    /\ pc = "analyze_health"
    /\ ret' = analyze_health(arg, now)
    /\ pc' = "returned"
    /\ UNCHANGED <<models, input, idx, futures, collected, predictions, all_predictions,
                   outcome, resp, invoked, failures, now, prev, arg>>

SpecHealth == InitHealth /\ [][ApplyHealth]_vars

\* C9: machine_condition is Safe iff the mean of the two temperature modes is
\* below 80 and the mean of the three vibration modes below 1.8; otherwise
\* Maintain iff they are below 100 and 2.8; otherwise Repair.  A mean
\* temperature of 79.999 with a mean vibration below 1.8 is Safe, one of 80 is not.
C9_ConditionTiers ==
    pc = "returned" =>
        LET sumT == arg["temperature_one"] + arg["temperature_two"]
            sumV == arg["vibration_x"] + arg["vibration_y"] + arg["vibration_z"]
            safe == sumT < 2 * 80 * Unit /\ 10 * sumV < 3 * 18 * Unit
            maintain == sumT < 2 * 100 * Unit /\ 10 * sumV < 3 * 28 * Unit
        IN  /\ ret["machine_condition"] = "Safe Condition" <=> safe
            /\ ret["machine_condition"] = "Maintain Condition" <=> (~safe /\ maintain)
            /\ ret["machine_condition"] = "Repair Condition" <=> (~safe /\ ~maintain)
            /\ (sumT = 2 * Milli(79999) /\ 10 * sumV < 3 * 18 * Unit)
                   => ret["machine_condition"] = "Safe Condition"
            /\ sumT = 2 * Milli(80000) => ret["machine_condition"] # "Safe Condition"

C9_Witness ==
    /\ pc = "returned"
    /\ arg["temperature_one"] = Milli(79999)
    /\ arg["temperature_two"] = Milli(79999)
    /\ arg["vibration_x"] = Milli(1799)
    /\ arg["vibration_y"] = Milli(1799)
    /\ ret["machine_condition"] = "Safe Condition"

(***************************************************************************)
(* aggregate_predictions applied on its own (SpecAggregate).               *)
(***************************************************************************)
TemperaturePredictions == {PyFloat(Unit, 1), PyFloat(2 * Unit, 1), PyFloat(4 * Unit, 1)}

VibrationPredictions ==
    {PyStr("Normal"), PyStr("Faulty"), PyFloat(Unit, 1), str(PyFloat(Unit, 1))}

PredictionDicts ==
    {[temperature |-> t, vibration |-> v, magnetic_flux |-> PyFloat(0, 1),
      audible_sound |-> PyStr("Normal"), ultra_sound |-> PyStr("Normal")] :
     t \in TemperaturePredictions, v \in VibrationPredictions}

InitAggregate ==
    /\ Idle
    /\ pc = "aggregate_predictions"
    /\ arg \in SeqsUpTo(PredictionDicts, MaxPreds) \ {<<>>}

ApplyAggregate ==
    /\ pc = "aggregate_predictions"
    /\ ret' = aggregate_predictions(arg)
    /\ pc' = "returned"
    /\ UNCHANGED <<models, input, idx, futures, collected, predictions, all_predictions,
                   outcome, resp, invoked, failures, now, prev, arg>>

SpecAggregate == InitAggregate /\ [][ApplyAggregate]_vars

RECURSIVE TotalOf(_, _, _)
TotalOf(predictions_list, key, i) ==
    IF i > Len(predictions_list) THEN 0
    ELSE predictions_list[i][key].v + TotalOf(predictions_list, key, i + 1)

InFlight == {m \in ModelNames : futures[m].st = "pending"}

ModelKeys == {"temperature", "vibration", "magnetic_flux", "audible_sound", "ultra_sound"}

C12_ErrorIsDeterministic ==
    (pc = "Failed" /\ now > 1 /\ Cardinality(failures) >= 2 /\ "error" \in DOMAIN prev.body)
        => resp.body["error"] = prev.body["error"]

\* C13: nothing is submitted for reading i+1 until the five invocations of
\* reading i have succeeded and been collected; the invocations in flight all
\* belong to the current reading and are at most five.
C13_OneReadingAtATime ==
    LET done == Len(all_predictions) IN
    /\ \A v \in invoked : v[1] \in 1..(done + 1) /\ v[1] <= len(input)
    /\ \A j \in 1..done :
          /\ \A m \in ModelNames : <<j, m>> \in invoked /\ <<j, m>> \notin failures
          /\ DOMAIN all_predictions[j] = ModelKeys
    /\ \A m \in InFlight : <<idx, m>> \in invoked /\ idx = done + 1
    /\ Cardinality(InFlight) <= 5

C13_Witness ==
    /\ pc = "Submitting"
    /\ idx = 2
    /\ Len(all_predictions) = 1
    /\ InFlight # {}
    /\ \E m \in ModelNames : <<2, m>> \notin invoked

\* C14: when aggregation starts, all_predictions holds one mapping per reading,
\* in batch order, each with exactly the five model keys, the value of each
\* being the prediction of that model on that reading, and no error entry.
C14_CollectedPredictions ==
    pc = "Aggregating" =>
        /\ Len(all_predictions) = len(input)
        /\ \A i \in 1..Len(all_predictions) :
              /\ DOMAIN all_predictions[i] = ModelKeys
              /\ \A m \in ModelNames :
                    LET r == predict_single_model(m, models[m], ReadingAt(input, i))
                    IN  /\ r.exc = "none"
                        /\ all_predictions[i][KeyOf(m)] = r.ret[KeyOf(m)]

C14_Witness ==
    /\ pc = "Aggregating"
    /\ input = List(<<GoodB, GoodA>>)
    /\ all_predictions[1]["temperature"] # all_predictions[2]["temperature"]

Phase ==
    IF pc \in {"Submitting", "Collecting", "ShuttingDown"} THEN "FanningOut" ELSE pc

\* C15: a request moves only along Validating, FanningOut, Aggregating, Done;
\* Done and Failed are left by no step of the request; Failed is entered only
\* from Validating on a shape violation or from FanningOut after a failed
\* invocation; the step out of Aggregating always leads to Done.
C15_StateMachine ==
    [][now' = now =>
         \/ Phase = "Validating" /\ Phase' = "FanningOut"
         \/ /\ Phase = "Validating"
            /\ Phase' = "Failed"
            /\ ~input.list \/ len(input) = 0 \/ len(input) > 1800
         \/ Phase = "FanningOut" /\ Phase' = "FanningOut"
         \/ /\ Phase = "FanningOut"
            /\ Phase' = "Aggregating"
            /\ failures = {}
            /\ Len(all_predictions') = len(input)
         \/ Phase = "FanningOut" /\ Phase' = "Failed" /\ failures # {}
         \/ Phase = "Aggregating" /\ Phase' = "Done"]_vars

C15_Witness ==
    /\ pc = "Done"
    /\ len(input) = 2
    /\ DOMAIN resp.body = ResultKeys


\* C16: when the outputs of a model are not all numeric, its aggregate is the
\* most frequent of their string representations, the first in batch order
\* among equally frequent ones; outputs with the same string representation
\* count as one value.
C16_ModeOfStrings ==
    pc = "returned" =>
        \A key \in DOMAIN ret.ret :
            (\E i \in 1..Len(arg) : arg[i][key].k # "float") =>
                LET n == Len(arg)
                    text(i) == str(arg[i][key])
                    Occ(x) == Cardinality({i \in 1..n : text(i) = x})
                    r == ret.ret[key]
                    first == CHOOSE i \in 1..n : text(i) = r /\ \A j \in 1..(i - 1) : text(j) # r
                IN  /\ \E i \in 1..n : text(i) = r
                    /\ \A i \in 1..n : Occ(text(i)) <= Occ(r)
                    /\ \A i \in 1..n : Occ(text(i)) = Occ(r) => first <= i

\* C17: with the request thread and every submitted invocation running on,
\* every request reaches Done or Failed.
C17_Terminates ==
    (pc = "Validating") ~> Terminal

C17_Witness ==
    /\ pc = "Failed"
    /\ outcome.type = "raise"
    /\ idx = 1
    /\ len(input) = 2
    /\ \E m \in ModelNames : futures[m].st = "finished" /\ m \notin collected

\* C18: overall_health is Healthy iff machine_condition is Safe; Safe iff both
\* analyses report no anomaly; Maintain iff the temperature analysis is at most
\* moderate overheating and the vibration analysis at most unbalance, one of
\* them reporting an anomaly; Repair in every other combination.
C18_ReportFieldsAgree ==
    pc = "returned" =>
        LET noT == ret["temperature_analysis"] = "No significant temperature anomaly detected"
            noV == ret["vibration_analysis"] = "No significant vibration anomaly detected"
            lowT == noT \/ ret["temperature_analysis"] = "Moderate Overheating - Check Lubrication"
            lowV == noV \/ ret["vibration_analysis"] = "Unbalance Fault"
        IN  /\ ret["overall_health"] \in {"Healthy", "Unhealthy"}
            /\ ret["overall_health"] = "Healthy" <=> ret["machine_condition"] = "Safe Condition"
            /\ ret["machine_condition"] = "Safe Condition" <=> (noT /\ noV)
            /\ ret["machine_condition"] = "Maintain Condition" <=> (lowT /\ lowV /\ ~(noT /\ noV))
            /\ ret["machine_condition"] = "Repair Condition" <=> ~(lowT /\ lowV)

C18_Witness ==
    /\ pc = "returned"
    /\ ret["machine_condition"] = "Maintain Condition"
    /\ ret["temperature_analysis"] = "Moderate Overheating - Check Lubrication"
    /\ ret["vibration_analysis"] = "No significant vibration anomaly detected"
    /\ ret["overall_health"] = "Unhealthy"

=============================================================================
